---- MODULE Spec2Model ----
(***************************************************************************)
(* Model of witnet-rust's configuration loader                             *)
(* (config/src/loaders/toml.rs): from_file, read_file_contents, from_str,  *)
(* the loader's Error type, and the thread-local FILE_CONTENTS cell of the *)
(* test build.                                                             *)
(*                                                                         *)
(* crate::config::partial::Config, crate::defaults and the resolver are    *)
(* declared in lib.rs (pub mod config; pub mod defaults;); the schema, the  *)
(* defaults and the resolver are modelled from the specification of the    *)
(* configuration library and from the loader's own tests.                  *)
(***************************************************************************)
EXTENDS Integers, Sequences, FiniteSets, TLC

(***************************************************************************)
(* Bounds of the model.                                                    *)
(***************************************************************************)
\* Longest configuration text handed to from_str, in lines.
MaxLines == 3
\* Number of threads that load configurations concurrently.
NThreads == 2

Threads == 1..NThreads

(***************************************************************************)
(* Option<T>: None is the empty sequence, Some(x) the one-element sequence.*)
(***************************************************************************)
None == <<>>
Some(x) == <<x>>
IsSome(o) == Len(o) = 1
IsNone(o) == Len(o) = 0
Unwrap(o) == o[1]
\* Option::unwrap_or
UnwrapOr(o, d) == IF IsSome(o) THEN o[1] ELSE d

(***************************************************************************)
(* Configuration text.  A text is a sequence of lines; a line is a table   *)
(* header "[name]", a "key = value" pair whose value is a string, an       *)
(* integer, a boolean or an array of strings, or a line that is not well   *)
(* formed.                                                                 *)
(***************************************************************************)
Tbl(name) ==
    [kind |-> "table", name |-> name, ty |-> "", s |-> "", n |-> 0, b |-> FALSE, a |-> <<>>]
KStr(key, s) ==
    [kind |-> "kv", name |-> key, ty |-> "str", s |-> s, n |-> 0, b |-> FALSE, a |-> <<>>]
KInt(key, n) ==
    [kind |-> "kv", name |-> key, ty |-> "int", s |-> "", n |-> n, b |-> FALSE, a |-> <<>>]
KBool(key, b) ==
    [kind |-> "kv", name |-> key, ty |-> "bool", s |-> "", n |-> 0, b |-> b, a |-> <<>>]
KArr(key, a) ==
    [kind |-> "kv", name |-> key, ty |-> "arr", s |-> "", n |-> 0, b |-> FALSE, a |-> a]
Malformed ==
    [kind |-> "bad", name |-> "", ty |-> "", s |-> "", n |-> 0, b |-> FALSE, a |-> <<>>]

\* The lines the tests of the loader use.
TestLines ==
    { KStr("environment", "mainnet"),
      KStr("environment", "testnet-1"),
      KStr("environment", "wrong"),
      Tbl("connections"),
      Tbl("storage"),
      Tbl("jsonrpc"),
      KInt("inbound_limit", 999),
      KStr("server_addr", "127.0.0.1:1234"),
      KArr("known_peers", <<"192.168.1.12:1234">>),
      KInt("bootstrap_peers_period_seconds", 11),
      KInt("storage_peers_period_seconds", 7),
      KInt("handshake_timeout_seconds", 21),
      KStr("db_path", "dbfiles"),
      KStr("server_address", "127.0.0.1:1234"),
      KBool("enabled", FALSE) }

\* Further lines: an unknown table, a duration of zero and one below zero,
\* a peer list of two, a value of the wrong type, and a line that is no TOML
\* at all.
OtherLines ==
    { Tbl("mining"),
      KInt("handshake_timeout_seconds", 0),
      KInt("storage_peers_period_seconds", -1),
      KArr("known_peers", <<"192.168.1.12:1234", "127.0.0.1:1234">>),
      KStr("inbound_limit", "many"),
      Malformed }

Lines == TestLines \cup OtherLines

TextsUpTo(n) == UNION { [1..k -> Lines] : k \in 0..n }
Texts == TextsUpTo(MaxLines)

\* ""
EmptyText == <<>>

(***************************************************************************)
(* Domain value types.                                                     *)
(***************************************************************************)
\* witnet_data_structures::chain::Environment, from its textual token.
ParseEnvironment(s) ==
    CASE s = "mainnet"   -> Some("Mainnet")
      [] s = "testnet-1" -> Some("Testnet1")
      [] OTHER           -> None

\* "host:port".parse::<SocketAddr>()
ParseSocketAddr(s) ==
    CASE s = "127.0.0.1:1234"    -> Some([ip |-> <<127, 0, 0, 1>>, port |-> 1234])
      [] s = "192.168.1.12:1234" -> Some([ip |-> <<192, 168, 1, 12>>, port |-> 1234])
      [] OTHER                   -> None

\* A variant that reads the number as milliseconds.
DurationFromMillis(n) == [secs |-> n \div 1000, nanos |-> (n % 1000) * 1000000]

\* std::time::Duration::from_secs
DurationFromSecs(n) == [secs |-> n, nanos |-> 0]

\* std::path::PathBuf::from
PathBufFrom(s) == [os_str |-> s]

(***************************************************************************)
(* The TOML document of a text: which table every key belongs to.          *)
(***************************************************************************)
Root == ""

MaxOf(S) == CHOOSE x \in S : \A y \in S : y <= x

\* The table line i of the text belongs to: the last header above it.
TableOf(text, i) ==
    LET hs == { j \in 1..(i - 1) : text[j].kind = "table" }
    IN  IF hs = {} THEN Root ELSE text[MaxOf(hs)].name

Headers(text) == { i \in DOMAIN text : text[i].kind = "table" }
Pairs(text) == { i \in DOMAIN text : text[i].kind = "kv" }

\* The grammar: every line well formed, no table defined twice, no key given
\* twice in one table.
WellFormed(text) ==
    /\ \A i \in DOMAIN text : text[i].kind # "bad"
    /\ \A i, j \in Headers(text) : text[i].name = text[j].name => i = j
    /\ \A i, j \in Pairs(text) :
          (text[i].name = text[j].name /\ TableOf(text, i) = TableOf(text, j)) => i = j

\* The value given for `key` in `table`: the set of its lines (at most one
\* in a well formed text).
Given(text, table, key) ==
    { i \in Pairs(text) : text[i].name = key /\ TableOf(text, i) = table }

(***************************************************************************)
(* The schema of partial::Config.                                          *)
(***************************************************************************)
Sections == {"connections", "storage", "jsonrpc"}

FieldsOf(table) ==
    CASE table = Root          -> {"environment"}
      [] table = "connections" -> {"server_addr", "inbound_limit", "known_peers",
                                   "bootstrap_peers_period_seconds",
                                   "storage_peers_period_seconds",
                                   "handshake_timeout_seconds"}
      [] table = "storage"     -> {"db_path"}
      [] table = "jsonrpc"     -> {"enabled", "server_address"}
      [] OTHER                 -> {}

\* A variant of the schema check that lets unknown tables and keys pass,
\* as a deserializer that does not deny unknown fields does.
KnownFieldsLenient(text) == TRUE

\* Every table and every key of the text is one of the schema.
KnownFields(text) ==
    /\ \A i \in Headers(text) : text[i].name \in Sections
    /\ \A i \in Pairs(text) : text[i].name \in FieldsOf(TableOf(text, i))

\* The value of line l has the type its key wants and parses as its domain
\* value.
ValueOk(l) ==
    CASE l.name = "environment"   -> l.ty = "str" /\ IsSome(ParseEnvironment(l.s))
      [] l.name \in {"server_addr", "server_address"}
                                  -> l.ty = "str" /\ IsSome(ParseSocketAddr(l.s))
      [] l.name = "inbound_limit" -> l.ty = "int" /\ l.n >= 0
      [] l.name = "known_peers"   -> /\ l.ty = "arr"
                                     /\ \A k \in DOMAIN l.a : IsSome(ParseSocketAddr(l.a[k]))
      [] l.name \in {"bootstrap_peers_period_seconds", "storage_peers_period_seconds",
                     "handshake_timeout_seconds"}
                                  -> l.ty = "int" /\ l.n >= 0
      [] l.name = "db_path"       -> l.ty = "str"
      [] l.name = "enabled"       -> l.ty = "bool"
      [] OTHER                    -> FALSE

ValuesOk(text) == \A i \in Pairs(text) : ValueOk(text[i])

\* An optional field of the partial configuration.
StrField(text, table, key) ==
    LET g == Given(text, table, key)
    IN  IF g = {} THEN None ELSE Some(text[CHOOSE i \in g : TRUE].s)
IntField(text, table, key) ==
    LET g == Given(text, table, key)
    IN  IF g = {} THEN None ELSE Some(text[CHOOSE i \in g : TRUE].n)
BoolField(text, table, key) ==
    LET g == Given(text, table, key)
    IN  IF g = {} THEN None ELSE Some(text[CHOOSE i \in g : TRUE].b)
ArrField(text, table, key) ==
    LET g == Given(text, table, key)
    IN  IF g = {} THEN None ELSE Some(text[CHOOSE i \in g : TRUE].a)

AddrField(text, table, key) ==
    LET f == StrField(text, table, key)
    IN  IF IsNone(f) THEN None ELSE ParseSocketAddr(Unwrap(f))
DurationField(text, table, key) ==
    LET f == IntField(text, table, key)
    IN  IF IsNone(f) THEN None ELSE Some(DurationFromSecs(Unwrap(f)))

\* Environment::default()
DefaultEnvironment == "Mainnet"

\* partial::Config built from a text that passed the schema.
BuildConfig(text) ==
    [ environment |->
          LET f == StrField(text, Root, "environment")
          IN  IF IsNone(f) THEN DefaultEnvironment ELSE Unwrap(ParseEnvironment(Unwrap(f))),
      connections |->
          [ server_addr   |-> AddrField(text, "connections", "server_addr"),
            inbound_limit |-> IntField(text, "connections", "inbound_limit"),
            known_peers   |->
                LET f == ArrField(text, "connections", "known_peers")
                IN  IF IsNone(f) THEN <<>>
                    ELSE [k \in DOMAIN Unwrap(f) |-> Unwrap(ParseSocketAddr(Unwrap(f)[k]))],
            bootstrap_peers_period |->
                DurationField(text, "connections", "bootstrap_peers_period_seconds"),
            storage_peers_period |->
                DurationField(text, "connections", "storage_peers_period_seconds"),
            handshake_timeout |->
                DurationField(text, "connections", "handshake_timeout_seconds") ],
      storage |->
          [ db_path |->
                LET f == StrField(text, "storage", "db_path")
                IN  IF IsNone(f) THEN None ELSE Some(PathBufFrom(Unwrap(f))) ],
      jsonrpc |->
          [ enabled        |-> BoolField(text, "jsonrpc", "enabled"),
            server_address |-> AddrField(text, "jsonrpc", "server_address") ] ]

\* toml::from_str::<partial::Config>: Ok(config) or Err(toml::de::Error).
TomlFromStr(text) ==
    IF ~WellFormed(text) THEN [ok |-> FALSE, val |-> None, e |-> "syntax"]
    ELSE IF ~KnownFields(text) THEN [ok |-> FALSE, val |-> None, e |-> "unknown field"]
    ELSE IF ~ValuesOk(text) THEN [ok |-> FALSE, val |-> None, e |-> "invalid value"]
    ELSE [ok |-> TRUE, val |-> Some(BuildConfig(text)), e |-> ""]

(***************************************************************************)
(* The Default Provider and the Resolver (crate::defaults, crate::config). *)
(*                                                                         *)
(* The specification fixes the default environment (Mainnet), the default  *)
(* of jsonrpc.enabled (true), the empty default of known_peers, that the   *)
(* inbound limit and the three periods are positive and the periods        *)
(* distinct, that the database path is relative and that the JSON-RPC      *)
(* address is a loopback address.  The numerals below stand for the        *)
(* constants of crate::defaults within those limits.                       *)
(***************************************************************************)
DefaultServerAddr == [ip |-> <<127, 0, 0, 1>>, port |-> 21337]
DefaultInboundLimit == 128
DefaultBootstrapPeersPeriod == DurationFromSecs(5)
DefaultStoragePeersPeriod == DurationFromSecs(30)
DefaultHandshakeTimeout == DurationFromSecs(10)
DefaultDbPath == PathBufFrom(".witnet_rust_mainnet")
DefaultJsonRpcEnabled == TRUE
DefaultJsonRpcServerAddress == [ip |-> <<127, 0, 0, 1>>, port |-> 21338]

\* Config::default() of the partial configuration: nothing given.
PartialDefault ==
    [ environment |-> DefaultEnvironment,
      connections |-> [ server_addr |-> None, inbound_limit |-> None, known_peers |-> <<>>,
                        bootstrap_peers_period |-> None, storage_peers_period |-> None,
                        handshake_timeout |-> None ],
      storage |-> [ db_path |-> None ],
      jsonrpc |-> [ enabled |-> None, server_address |-> None ] ]

\* A variant of the resolver that takes the language's zero value for an
\* absent flag and couples the handshake timeout to the bootstrap period.
FromPartialZeroed(p) ==
    [ environment |-> p.environment,
      connections |->
          [ server_addr   |-> UnwrapOr(p.connections.server_addr, DefaultServerAddr),
            inbound_limit |-> UnwrapOr(p.connections.inbound_limit, DefaultInboundLimit),
            known_peers   |-> p.connections.known_peers,
            bootstrap_peers_period |->
                UnwrapOr(p.connections.bootstrap_peers_period, DefaultBootstrapPeersPeriod),
            storage_peers_period |->
                UnwrapOr(p.connections.storage_peers_period, DefaultStoragePeersPeriod),
            handshake_timeout |->
                UnwrapOr(p.connections.handshake_timeout,
                         UnwrapOr(p.connections.bootstrap_peers_period,
                                  DefaultHandshakeTimeout)) ],
      storage |-> [ db_path |-> UnwrapOr(p.storage.db_path, DefaultDbPath) ],
      jsonrpc |->
          [ enabled        |-> UnwrapOr(p.jsonrpc.enabled, FALSE),
            server_address |-> UnwrapOr(p.jsonrpc.server_address,
                                        DefaultJsonRpcServerAddress) ] ]

\* The resolver: the configuration a partial configuration stands for.
FromPartial(p) ==
    [ environment |-> p.environment,
      connections |->
          [ server_addr   |-> UnwrapOr(p.connections.server_addr, DefaultServerAddr),
            inbound_limit |-> UnwrapOr(p.connections.inbound_limit, DefaultInboundLimit),
            known_peers   |-> p.connections.known_peers,
            bootstrap_peers_period |->
                UnwrapOr(p.connections.bootstrap_peers_period, DefaultBootstrapPeersPeriod),
            storage_peers_period |->
                UnwrapOr(p.connections.storage_peers_period, DefaultStoragePeersPeriod),
            handshake_timeout |->
                UnwrapOr(p.connections.handshake_timeout, DefaultHandshakeTimeout) ],
      storage |-> [ db_path |-> UnwrapOr(p.storage.db_path, DefaultDbPath) ],
      jsonrpc |->
          [ enabled        |-> UnwrapOr(p.jsonrpc.enabled, DefaultJsonRpcEnabled),
            server_address |-> UnwrapOr(p.jsonrpc.server_address,
                                        DefaultJsonRpcServerAddress) ] ]

(***************************************************************************)
(* The loader: Error, Result and from_str.                                 *)
(***************************************************************************)
\* Result<Config>: Ok(config), Err(Error::IOError(e)), Err(Error::ParseError(e)).
Ok(cfg)       == [kind |-> "Ok", val |-> Some(cfg), e |-> ""]
IOError(e)    == [kind |-> "IOError", val |-> None, e |-> e]
ParseError(e) == [kind |-> "ParseError", val |-> None, e |-> e]
\* No load has returned yet.
NoResult      == [kind |-> "None", val |-> None, e |-> ""]

\* A resolved configuration in the shape of a partial one: every field given.
AllGiven(c) ==
    [ environment |-> c.environment,
      connections |->
          [ server_addr   |-> Some(c.connections.server_addr),
            inbound_limit |-> Some(c.connections.inbound_limit),
            known_peers   |-> c.connections.known_peers,
            bootstrap_peers_period |-> Some(c.connections.bootstrap_peers_period),
            storage_peers_period   |-> Some(c.connections.storage_peers_period),
            handshake_timeout      |-> Some(c.connections.handshake_timeout) ],
      storage |-> [ db_path |-> Some(c.storage.db_path) ],
      jsonrpc |-> [ enabled        |-> Some(c.jsonrpc.enabled),
                    server_address |-> Some(c.jsonrpc.server_address) ] ]

\* Variants of from_str.
\* ... deserializing into config::Config rather than config::partial::Config.
from_str_resolved(contents) ==
    LET r == TomlFromStr(contents)
    IN  IF r.ok THEN Ok(AllGiven(FromPartial(Unwrap(r.val)))) ELSE ParseError(r.e)

\* ... toml::from_str(contents).unwrap_or_default()
from_str_or_default(contents) ==
    LET r == TomlFromStr(contents)
    IN  IF r.ok THEN Ok(Unwrap(r.val)) ELSE Ok(PartialDefault)

\* ... refusing a text with nothing in it.
from_str_rejecting_empty(contents) ==
    LET r == TomlFromStr(contents)
    IN  IF contents = EmptyText THEN ParseError("empty")
        ELSE IF r.ok THEN Ok(Unwrap(r.val)) ELSE ParseError(r.e)

\* ... dropping a given value that equals the zero value of its type.
from_str_skip_zero(contents) ==
    LET r == TomlFromStr(contents)
        p == Unwrap(r.val)
        q == [p EXCEPT
                !.jsonrpc.enabled =
                    IF p.jsonrpc.enabled = Some(FALSE) THEN None ELSE @,
                !.connections.handshake_timeout =
                    IF p.connections.handshake_timeout = Some([secs |-> 0, nanos |-> 0])
                    THEN None ELSE @]
    IN  IF r.ok THEN Ok(q) ELSE ParseError(r.e)

\* ... collecting known_peers without keeping the order they are listed in.
from_str_unordered_peers(contents) ==
    LET r == TomlFromStr(contents)
        p == Unwrap(r.val)
        kp == p.connections.known_peers
        q == [p EXCEPT !.connections.known_peers =
                         [k \in DOMAIN kp |-> kp[Len(kp) + 1 - k]]]
    IN  IF r.ok THEN Ok(q) ELSE ParseError(r.e)

\* pub fn from_str(contents: &str) -> Result<Config>
from_str(contents) ==
    LET r == TomlFromStr(contents)
    IN  IF r.ok THEN Ok(Unwrap(r.val)) ELSE ParseError(r.e)

(***************************************************************************)
(* The state.                                                              *)
(***************************************************************************)
VARIABLES
    build,          \* "test" (cfg(test)) or "release" (cfg(not(test)))
    FILE_CONTENTS,  \* the thread_local cell of the test build, one per thread
    own,            \* the text each thread last stored with FILE_CONTENTS.set
    pc,             \* where each thread is in its load
    call,           \* the entry point each thread called
    contents,       \* from_file's `contents` buffer / from_str's argument
    io,             \* how the thread's read_file_contents ended
    result,         \* what the entry point returned
    resolved,       \* the configuration resolved from the result, if any
    trace           \* the steps the current call has run

vars == <<build, FILE_CONTENTS, own, pc, call, contents, io, result, resolved, trace>>

\* The texts a configuration file holds: the files of the loader's tests
\* and one that does not parse.
FileTexts ==
    { EmptyText,
      <<KStr("environment", "testnet-1"), Tbl("connections"), KInt("inbound_limit", 999)>>,
      <<KStr("environment", "wrong")>> }

\* A variant: a plain static, one cell for all threads.
SharedCell(t) == 1

\* thread_local!: every thread has a cell of its own.
CellOf(t) == t

\* String::insert_str
InsertStr(s, idx, v) == SubSeq(s, 1, idx) \o v \o SubSeq(s, idx + 1, Len(s))

\* A variant that wraps the read failure in the wrong kind of Error.
ReadErrAsParse(e) == ParseError(e)

\* .map_err(Error::IOError)
ReadErr(e) == IOError(e)

Init ==
    /\ build \in {"test", "release"}
    /\ FILE_CONTENTS = [t \in Threads |-> EmptyText]
    /\ own = [t \in Threads |-> EmptyText]
    /\ pc = [t \in Threads |-> "idle"]
    /\ call = [t \in Threads |-> "none"]
    /\ contents = [t \in Threads |-> EmptyText]
    /\ io = [t \in Threads |-> "none"]
    /\ result = [t \in Threads |-> NoResult]
    /\ resolved = [t \in Threads |-> None]
    /\ trace = [t \in Threads |-> <<>>]

\* super::FILE_CONTENTS.with(|cell| cell.set(text)) with one of `texts`, as
\* the tests do before
\* they call from_file.
SetFileContents(t, texts) ==
    /\ build = "test"
    /\ pc[t] = "idle"
    /\ \E text \in texts :
          /\ FILE_CONTENTS' = [FILE_CONTENTS EXCEPT ![CellOf(t)] = text]
          /\ own' = [own EXCEPT ![t] = text]
    /\ UNCHANGED <<build, pc, call, contents, io, result, resolved, trace>>

\* from_file is entered: let mut contents = String::new();
CallFromFile(t) ==
    /\ pc[t] = "idle"
    /\ pc' = [pc EXCEPT ![t] = "read"]
    /\ call' = [call EXCEPT ![t] = "from_file"]
    /\ contents' = [contents EXCEPT ![t] = EmptyText]
    /\ io' = [io EXCEPT ![t] = "none"]
    /\ result' = [result EXCEPT ![t] = NoResult]
    /\ resolved' = [resolved EXCEPT ![t] = None]
    /\ trace' = [trace EXCEPT ![t] = <<>>]
    /\ UNCHANGED <<build, FILE_CONTENTS, own>>

\* read_file_contents(file, &mut contents).map_err(Error::IOError)?
\* succeeded with `text`: on to from_str(&contents).
ReadOk(t, text) ==
    /\ pc' = [pc EXCEPT ![t] = "parse"]
    /\ contents' = [contents EXCEPT ![t] = InsertStr(contents[t], Len(contents[t]), text)]
    /\ io' = [io EXCEPT ![t] = "ok"]
    /\ trace' = [trace EXCEPT ![t] = Append(trace[t], "read")]
    /\ UNCHANGED <<build, FILE_CONTENTS, own, call, result, resolved>>

\* ... failed with the io::Error e: from_file returns Err(IOError(e)).
ReadFailed(t, e) ==
    /\ pc' = [pc EXCEPT ![t] = "returned"]
    /\ result' = [result EXCEPT ![t] = ReadErr(e)]
    /\ io' = [io EXCEPT ![t] = "err"]
    /\ trace' = [trace EXCEPT ![t] = Append(trace[t], "read")]
    /\ UNCHANGED <<build, FILE_CONTENTS, own, call, contents, resolved>>

\* #[cfg(not(test))] read_file_contents: File::open(file)?, then
\* file.read_to_string(contents).  What the file system answers is an input.
ReadFile(t) ==
    /\ build = "release"
    /\ pc[t] = "read"
    /\ \/ \E text \in FileTexts : ReadOk(t, text)
       \/ \E e \in {"NotFound", "PermissionDenied"} : ReadFailed(t, e)

\* #[cfg(test)] read_file_contents: the thread's FILE_CONTENTS cell is
\* inserted at the front of contents; this never fails.
ReadCell(t) ==
    /\ build = "test"
    /\ pc[t] = "read"
    /\ pc' = [pc EXCEPT ![t] = "parse"]
    /\ contents' = [contents EXCEPT ![t] = InsertStr(contents[t], 0, FILE_CONTENTS[CellOf(t)])]
    /\ io' = [io EXCEPT ![t] = "ok"]
    /\ trace' = [trace EXCEPT ![t] = Append(trace[t], "read")]
    /\ UNCHANGED <<build, FILE_CONTENTS, own, call, result, resolved>>

\* from_str is entered with one of `texts`.
CallFromStr(t, texts) ==
    /\ pc[t] = "idle"
    /\ \E text \in texts : contents' = [contents EXCEPT ![t] = text]
    /\ pc' = [pc EXCEPT ![t] = "parse"]
    /\ call' = [call EXCEPT ![t] = "from_str"]
    /\ io' = [io EXCEPT ![t] = "none"]
    /\ result' = [result EXCEPT ![t] = NoResult]
    /\ resolved' = [resolved EXCEPT ![t] = None]
    /\ trace' = [trace EXCEPT ![t] = <<>>]
    /\ UNCHANGED <<build, FILE_CONTENTS, own>>

\* from_str(&contents) runs and the entry point returns its result.
FromStr(t) ==
    /\ pc[t] = "parse"
    /\ pc' = [pc EXCEPT ![t] = "returned"]
    /\ result' = [result EXCEPT ![t] = from_str(contents[t])]
    /\ trace' = [trace EXCEPT ![t] = Append(trace[t], "parse")]
    /\ UNCHANGED <<build, FILE_CONTENTS, own, call, contents, io, resolved>>

\* The caller resolves the partial configuration it was returned.
Resolve(t) ==
    /\ pc[t] = "returned"
    /\ result[t].kind = "Ok"
    /\ pc' = [pc EXCEPT ![t] = "resolved"]
    /\ resolved' = [resolved EXCEPT ![t] = Some(FromPartial(Unwrap(result[t].val)))]
    /\ trace' = [trace EXCEPT ![t] = Append(trace[t], "resolve")]
    /\ UNCHANGED <<build, FILE_CONTENTS, own, call, contents, io, result>>

\* The caller is done with the load and may start another.
Finish(t) ==
    /\ pc[t] \in {"returned", "resolved"}
    /\ pc' = [pc EXCEPT ![t] = "idle"]
    /\ call' = [call EXCEPT ![t] = "none"]
    /\ contents' = [contents EXCEPT ![t] = EmptyText]
    /\ io' = [io EXCEPT ![t] = "none"]
    /\ result' = [result EXCEPT ![t] = NoResult]
    /\ resolved' = [resolved EXCEPT ![t] = None]
    /\ trace' = [trace EXCEPT ![t] = <<>>]
    /\ UNCHANGED <<build, FILE_CONTENTS, own>>

\* One caller, every text of up to MaxLines lines.
Next ==
    \/ SetFileContents(1, FileTexts)
    \/ CallFromFile(1)
    \/ ReadFile(1)
    \/ ReadCell(1)
    \/ CallFromStr(1, Texts)
    \/ FromStr(1)
    \/ Resolve(1)
    \/ Finish(1)

Spec == Init /\ [][Next]_vars

\* NThreads callers at once, on the texts of the configuration files.
NextConc ==
    \E t \in Threads :
        \/ SetFileContents(t, FileTexts)
        \/ CallFromFile(t)
        \/ ReadFile(t)
        \/ ReadCell(t)
        \/ CallFromStr(t, FileTexts)
        \/ FromStr(t)
        \/ Resolve(t)
        \/ Finish(t)

SpecConc == Init /\ [][NextConc]_vars

(***************************************************************************)
(* Vocabulary of the properties.                                           *)
(***************************************************************************)
\* The entry point thread t called has returned.
Returned(t) == pc[t] \in {"returned", "resolved"}
\* ... with a configuration.
Loaded(t) == Returned(t) /\ result[t].kind = "Ok"
\* The configuration returned, and the one resolved from it.
Partial(t) == Unwrap(result[t].val)
Final(t) == Unwrap(resolved[t])

\* The lines of `text` that give `key` at the top level / in section `sec`,
\* read off the text itself.
TopLevel(text, i) == \A j \in 1..(i - 1) : text[j].kind # "table"
InSection(text, i, sec) ==
    \E j \in 1..(i - 1) :
        /\ text[j] = Tbl(sec)
        /\ \A k \in (j + 1)..(i - 1) : text[k].kind # "table"
TopKey(text, key) ==
    { i \in DOMAIN text : text[i].kind = "kv" /\ text[i].name = key /\ TopLevel(text, i) }
SecKey(text, sec, key) ==
    { i \in DOMAIN text :
        text[i].kind = "kv" /\ text[i].name = key /\ InSection(text, i, sec) }

\* The optional fields of a partial configuration, and whether one is absent.
OptionalFields(p) ==
    << p.connections.server_addr, p.connections.inbound_limit,
       p.connections.bootstrap_peers_period, p.connections.storage_peers_period,
       p.connections.handshake_timeout, p.storage.db_path,
       p.jsonrpc.enabled, p.jsonrpc.server_address >>
HasAbsent(p) == \E k \in 1..8 : IsNone(OptionalFields(p)[k])
AllAbsent(p) ==
    /\ \A k \in 1..8 : IsNone(OptionalFields(p)[k])
    /\ p.connections.known_peers = <<>>

\* The leaves of a resolved configuration, in the order of OptionalFields,
\* then the two leaves that are not optional in the partial configuration.
Leaves(c) ==
    << c.connections.server_addr, c.connections.inbound_limit,
       c.connections.bootstrap_peers_period, c.connections.storage_peers_period,
       c.connections.handshake_timeout, c.storage.db_path,
       c.jsonrpc.enabled, c.jsonrpc.server_address,
       c.environment, c.connections.known_peers >>

\* What the Default Provider gives for each leaf, in the order of Leaves.
DefaultLeaves ==
    << DefaultServerAddr, DefaultInboundLimit,
       DefaultBootstrapPeersPeriod, DefaultStoragePeersPeriod,
       DefaultHandshakeTimeout, DefaultDbPath,
       DefaultJsonRpcEnabled, DefaultJsonRpcServerAddress,
       DefaultEnvironment, <<>> >>

\* The partial configuration p with its k-th leaf set to v (an Option for
\* k <= 8, the value itself for the environment and the peers).
WithLeaf(p, k, v) ==
    CASE k = 1  -> [p EXCEPT !.connections.server_addr = v]
      [] k = 2  -> [p EXCEPT !.connections.inbound_limit = v]
      [] k = 3  -> [p EXCEPT !.connections.bootstrap_peers_period = v]
      [] k = 4  -> [p EXCEPT !.connections.storage_peers_period = v]
      [] k = 5  -> [p EXCEPT !.connections.handshake_timeout = v]
      [] k = 6  -> [p EXCEPT !.storage.db_path = v]
      [] k = 7  -> [p EXCEPT !.jsonrpc.enabled = v]
      [] k = 8  -> [p EXCEPT !.jsonrpc.server_address = v]
      [] k = 9  -> [p EXCEPT !.environment = v]
      [] k = 10 -> [p EXCEPT !.connections.known_peers = v]

\* Other settings of the k-th leaf: absent, and given with some value.
OtherSettings(k) ==
    CASE k \in {1, 8} -> {None, Some([ip |-> <<10, 0, 0, 7>>, port |-> 80])}
      [] k = 2        -> {None, Some(0), Some(7)}
      [] k \in 3..5   -> {None, Some([secs |-> 0, nanos |-> 0]), Some([secs |-> 3, nanos |-> 0])}
      [] k = 6        -> {None, Some([os_str |-> "elsewhere"])}
      [] k = 7        -> {None, Some(FALSE), Some(TRUE)}
      [] k = 9        -> {"Mainnet", "Testnet1"}
      [] k = 10       -> {<<>>, <<[ip |-> <<10, 0, 0, 7>>, port |-> 80]>>}

\* A resolved leaf is a value of its type, not an Option.
IsAddr(a) == DOMAIN a = {"ip", "port"} /\ Len(a.ip) = 4 /\ a.port \in 0..65535
IsDuration(d) == DOMAIN d = {"secs", "nanos"} /\ d.secs \in Nat /\ d.nanos \in Nat
FullyPopulated(c) ==
    /\ c.environment \in {"Mainnet", "Testnet1"}
    /\ IsAddr(c.connections.server_addr)
    /\ c.connections.inbound_limit \in Nat
    /\ \A k \in DOMAIN c.connections.known_peers : IsAddr(c.connections.known_peers[k])
    /\ IsDuration(c.connections.bootstrap_peers_period)
    /\ IsDuration(c.connections.storage_peers_period)
    /\ IsDuration(c.connections.handshake_timeout)
    /\ DOMAIN c.storage.db_path = {"os_str"}
    /\ c.jsonrpc.enabled \in BOOLEAN
    /\ IsAddr(c.jsonrpc.server_address)

(***************************************************************************)
(* C1                                                                      *)
(***************************************************************************)
\* C1: resolution is total and per field.  Whenever a returned partial
\* configuration has been resolved, the result is there and fully populated,
\* every leaf equals the partial's value where that is present and the
\* Default Provider's value where it is absent, and setting one leaf of the
\* partial configuration differently changes no other resolved leaf.
C1_ResolvePerField ==
    \A t \in Threads :
        pc[t] = "resolved" =>
            /\ IsSome(resolved[t])
            /\ FullyPopulated(Final(t))
            /\ \A k \in 1..8 :
                  Leaves(Final(t))[k] =
                      IF IsSome(OptionalFields(Partial(t))[k])
                      THEN Unwrap(OptionalFields(Partial(t))[k])
                      ELSE DefaultLeaves[k]
            /\ Final(t).environment = Partial(t).environment
            /\ Final(t).connections.known_peers = Partial(t).connections.known_peers
            /\ \A k \in 1..10 : \A v \in OtherSettings(k) :
                  LET q == FromPartial(WithLeaf(Partial(t), k, v))
                  IN  \A j \in (1..10) \ {k} : Leaves(q)[j] = Leaves(Final(t))[j]

\* A resolved load where one field was given and the others were not.
C1_Witness ==
    /\ pc[1] = "resolved"
    /\ IsSome(Partial(1).connections.inbound_limit)
    /\ IsNone(Partial(1).jsonrpc.enabled)
    /\ Final(1).connections.inbound_limit = 999
    /\ Final(1).jsonrpc.enabled = DefaultJsonRpcEnabled

(***************************************************************************)
(* C2                                                                      *)
(***************************************************************************)
\* The partial configuration p equals, leaf by leaf, the resolved one c.
EqualsResolved(p, c) ==
    /\ ~HasAbsent(p)
    /\ \A k \in 1..8 : Unwrap(OptionalFields(p)[k]) = Leaves(c)[k]
    /\ p.environment = c.environment
    /\ p.connections.known_peers = c.connections.known_peers

\* C2 as stated: what from_file and from_str return on success is the fully
\* resolved configuration: no field of it is absent, and for empty input it
\* equals the resolution of the empty partial configuration.
C2_ReturnsResolved ==
    \A t \in Threads :
        Loaded(t) =>
            /\ ~HasAbsent(Partial(t))
            /\ contents[t] = EmptyText =>
                  EqualsResolved(Partial(t), FromPartial(PartialDefault))

\* C2, amended: what from_file and from_str return on success is the partial
\* configuration: a field is present in it exactly when the text gives it,
\* for empty input it is the empty partial configuration, and it is
\* resolving that one which gives a configuration whose every field equals
\* its default.
C2_ReturnsPartial ==
    \A t \in Threads :
        Loaded(t) =>
            LET text == contents[t]
                p == Partial(t)
            IN  /\ IsSome(p.connections.server_addr)
                      <=> SecKey(text, "connections", "server_addr") # {}
                /\ IsSome(p.connections.inbound_limit)
                      <=> SecKey(text, "connections", "inbound_limit") # {}
                /\ IsSome(p.connections.bootstrap_peers_period)
                      <=> SecKey(text, "connections", "bootstrap_peers_period_seconds") # {}
                /\ IsSome(p.connections.storage_peers_period)
                      <=> SecKey(text, "connections", "storage_peers_period_seconds") # {}
                /\ IsSome(p.connections.handshake_timeout)
                      <=> SecKey(text, "connections", "handshake_timeout_seconds") # {}
                /\ IsSome(p.storage.db_path) <=> SecKey(text, "storage", "db_path") # {}
                /\ IsSome(p.jsonrpc.enabled) <=> SecKey(text, "jsonrpc", "enabled") # {}
                /\ IsSome(p.jsonrpc.server_address)
                      <=> SecKey(text, "jsonrpc", "server_address") # {}
                /\ text = EmptyText =>
                      /\ HasAbsent(p)
                      /\ p = PartialDefault
                      /\ pc[t] = "resolved" => Leaves(Final(t)) = DefaultLeaves

\* An empty text was loaded and then resolved.
C2_Witness ==
    /\ pc[1] = "resolved"
    /\ contents[1] = EmptyText
    /\ HasAbsent(Partial(1))
    /\ Leaves(Final(1)) = DefaultLeaves

(***************************************************************************)
(* C3                                                                      *)
(***************************************************************************)
\* C3: loading the empty text is not an error and yields the partial
\* configuration with every field absent, Config::default(); from_file does
\* the same when the file's contents are the empty string.
C3_EmptyLoadsDefault ==
    \A t \in Threads :
        (Returned(t) /\ io[t] # "err" /\ contents[t] = EmptyText) =>
            /\ result[t].kind = "Ok"
            /\ IsSome(result[t].val)
            /\ Partial(t) = PartialDefault
            /\ AllAbsent(Partial(t))

\* One thread loaded the empty text with from_file while another loaded it
\* with from_str.
C3_Witness ==
    \E t, u \in Threads :
        /\ call[t] = "from_file" /\ call[u] = "from_str"
        /\ Returned(t) /\ Returned(u)
        /\ io[t] = "ok"
        /\ contents[t] = EmptyText /\ contents[u] = EmptyText
        /\ result[t].kind = "Ok" /\ result[u].kind = "Ok"

(***************************************************************************)
(* C4                                                                      *)
(***************************************************************************)
\* C4: from_file reads, then parses, each at most once.  A failed read gives
\* IOError and from_str is not run; after a successful read the result is
\* what from_str returns for the contents read, a ParseError exactly when
\* that text does not parse.  A call ends in a configuration, an IOError or
\* a ParseError, and a failed call carries no configuration.
C4_ReadThenParse ==
    \A t \in Threads :
        (call[t] = "from_file" /\ Returned(t)) =>
            /\ io[t] \in {"ok", "err"}
            /\ io[t] = "err" =>
                  /\ result[t].kind = "IOError"
                  /\ trace[t] = <<"read">>
            /\ io[t] = "ok" =>
                  /\ result[t] = from_str(contents[t])
                  /\ result[t].kind # "IOError"
                  /\ result[t].kind = "ParseError" <=> ~TomlFromStr(contents[t]).ok
                  /\ SubSeq(trace[t], 1, 2) = <<"read", "parse">>
            /\ result[t].kind \in {"Ok", "IOError", "ParseError"}
            /\ result[t].kind = "Ok" <=> IsSome(result[t].val)
            /\ Len(trace[t]) <= 3
            /\ \A i, j \in DOMAIN trace[t] : trace[t][i] = trace[t][j] => i = j

\* from_file could not read its file.
C4_Witness ==
    /\ call[1] = "from_file"
    /\ pc[1] = "returned"
    /\ io[1] = "err"
    /\ result[1].kind = "IOError"
    /\ trace[1] = <<"read">>

(***************************************************************************)
(* C5                                                                      *)
(***************************************************************************)
\* The text names a table or a key that the schema does not have.
NamesUnknown(text) ==
    \E i \in DOMAIN text :
        \/ /\ text[i].kind = "table"
           /\ text[i].name \notin {"connections", "storage", "jsonrpc"}
        \/ /\ text[i].kind = "kv"
           /\ TopLevel(text, i)
           /\ text[i].name # "environment"
        \/ /\ text[i].kind = "kv"
           /\ InSection(text, i, "connections")
           /\ text[i].name \notin {"server_addr", "inbound_limit", "known_peers",
                                   "bootstrap_peers_period_seconds",
                                   "storage_peers_period_seconds",
                                   "handshake_timeout_seconds"}
        \/ /\ text[i].kind = "kv"
           /\ InSection(text, i, "storage")
           /\ text[i].name # "db_path"
        \/ /\ text[i].kind = "kv"
           /\ InSection(text, i, "jsonrpc")
           /\ text[i].name \notin {"enabled", "server_address"}

\* C5: the schema is strict.  A text that names an unknown table, an unknown
\* top-level key or an unknown field of a section fails to load with a
\* ParseError and no configuration.
C5_StrictSchema ==
    \A t \in Threads :
        (Returned(t) /\ io[t] # "err" /\ NamesUnknown(contents[t])) =>
            /\ result[t].kind = "ParseError"
            /\ IsNone(result[t].val)

\* A text that is otherwise fine but puts a key into the wrong section.
C5_Witness ==
    /\ pc[1] = "returned"
    /\ contents[1] = <<Tbl("storage"), KBool("enabled", FALSE)>>
    /\ result[1].kind = "ParseError"

(***************************************************************************)
(* C6                                                                      *)
(***************************************************************************)
\* C6: the environment is one of the known tokens.  "mainnet" loads as
\* Mainnet and "testnet-1" as Testnet1; a text that gives any other token
\* fails to load with a ParseError, never an IOError, and no configuration.
C6_EnvironmentTokens ==
    \A t \in Threads :
        (Returned(t) /\ io[t] # "err") =>
            LET text == contents[t]
                g == TopKey(text, "environment")
            IN  /\ (\E i \in g : text[i].s \notin {"mainnet", "testnet-1"}) =>
                      /\ result[t].kind = "ParseError"
                      /\ IsNone(result[t].val)
                /\ result[t].kind = "Ok" =>
                      \A i \in g :
                          /\ text[i].s = "mainnet" => Partial(t).environment = "Mainnet"
                          /\ text[i].s = "testnet-1" => Partial(t).environment = "Testnet1"
                /\ text \in {<<KStr("environment", "mainnet")>>,
                             <<KStr("environment", "testnet-1")>>} =>
                      result[t].kind = "Ok"

\* The test's "environment = 'wrong'" was loaded.
C6_Witness ==
    /\ pc[1] = "returned"
    /\ call[1] = "from_str"
    /\ contents[1] = <<KStr("environment", "wrong")>>
    /\ result[1].kind = "ParseError"
    /\ IsNone(result[1].val)

(***************************************************************************)
(* C7                                                                      *)
(***************************************************************************)
\* C7: absent is not the same as given-and-zero.  "enabled = false" in
\* [jsonrpc] loads as Some(false) and resolves to false; with no such key
\* (no section, or an empty one) the flag is None and resolves to the
\* default, true.  A handshake timeout given as 0 stays 0 seconds.
C7_AbsentIsNotZero ==
    \A t \in Threads :
        Loaded(t) =>
            LET text == contents[t]
                g == SecKey(text, "jsonrpc", "enabled")
                h == SecKey(text, "connections", "handshake_timeout_seconds")
            IN  /\ (\E i \in g : text[i].b = FALSE) =>
                      /\ Partial(t).jsonrpc.enabled = Some(FALSE)
                      /\ pc[t] = "resolved" => Final(t).jsonrpc.enabled = FALSE
                /\ g = {} =>
                      /\ Partial(t).jsonrpc.enabled = None
                      /\ pc[t] = "resolved" => Final(t).jsonrpc.enabled = TRUE
                /\ (\E i \in h : text[i].n = 0) =>
                      /\ Partial(t).connections.handshake_timeout =
                             Some([secs |-> 0, nanos |-> 0])
                      /\ pc[t] = "resolved" =>
                             Final(t).connections.handshake_timeout =
                                 [secs |-> 0, nanos |-> 0]

\* "[jsonrpc] enabled = false" was loaded and resolved.
C7_Witness ==
    /\ pc[1] = "resolved"
    /\ contents[1] = <<Tbl("jsonrpc"), KBool("enabled", FALSE)>>
    /\ Partial(1).jsonrpc.enabled = Some(FALSE)
    /\ Final(1).jsonrpc.enabled = FALSE

(***************************************************************************)
(* C8                                                                      *)
(***************************************************************************)
DurationKeys ==
    {"bootstrap_peers_period_seconds", "storage_peers_period_seconds",
     "handshake_timeout_seconds"}

PartialDuration(p, key) ==
    CASE key = "bootstrap_peers_period_seconds" -> p.connections.bootstrap_peers_period
      [] key = "storage_peers_period_seconds"   -> p.connections.storage_peers_period
      [] key = "handshake_timeout_seconds"      -> p.connections.handshake_timeout

FinalDuration(c, key) ==
    CASE key = "bootstrap_peers_period_seconds" -> c.connections.bootstrap_peers_period
      [] key = "storage_peers_period_seconds"   -> c.connections.storage_peers_period
      [] key = "handshake_timeout_seconds"      -> c.connections.handshake_timeout

\* C8: a duration key of [connections] given as the integer n loads and
\* resolves to n whole seconds, for its own field only; a duration key that
\* is not given is None in the partial configuration and resolves to a
\* default of more than zero seconds.
C8_DurationsInSeconds ==
    \A t \in Threads :
        Loaded(t) =>
            \A key \in DurationKeys :
                LET text == contents[t]
                    g == SecKey(text, "connections", key)
                IN  /\ \A i \in g :
                          /\ text[i].n >= 0
                          /\ PartialDuration(Partial(t), key) =
                                 Some([secs |-> text[i].n, nanos |-> 0])
                          /\ pc[t] = "resolved" =>
                                 FinalDuration(Final(t), key) =
                                     [secs |-> text[i].n, nanos |-> 0]
                    /\ g = {} =>
                          /\ PartialDuration(Partial(t), key) = None
                          /\ pc[t] = "resolved" =>
                                 /\ FinalDuration(Final(t), key).secs > 0
                                 /\ FinalDuration(Final(t), key).nanos = 0

\* One duration was given, the other two were not.
C8_Witness ==
    /\ pc[1] = "resolved"
    /\ contents[1] = <<Tbl("connections"), KInt("bootstrap_peers_period_seconds", 11)>>
    /\ Final(1).connections.bootstrap_peers_period = [secs |-> 11, nanos |-> 0]
    /\ Partial(1).connections.storage_peers_period = None
    /\ Final(1).connections.storage_peers_period.secs > 0

(***************************************************************************)
(* C9                                                                      *)
(***************************************************************************)
\* No key of the text lies in section `sec`.
NoKeyIn(text, sec) ==
    \A i \in DOMAIN text : ~(text[i].kind = "kv" /\ InSection(text, i, sec))

\* C9: a section without fields loads like a section that is not there: the
\* default partial section, every field absent.  known_peers holds the
\* addresses listed, as many and in that order, and is empty when the key is
\* not given, in the partial and in the resolved configuration.  A
\* server_addr that is given loads as that address.
C9_SectionsAndPeers ==
    \A t \in Threads :
        Loaded(t) =>
            LET text == contents[t]
                p == Partial(t)
                peers == SecKey(text, "connections", "known_peers")
                addr == SecKey(text, "connections", "server_addr")
            IN  /\ NoKeyIn(text, "connections") => p.connections = PartialDefault.connections
                /\ NoKeyIn(text, "storage") => p.storage = PartialDefault.storage
                /\ NoKeyIn(text, "jsonrpc") => p.jsonrpc = PartialDefault.jsonrpc
                /\ \A i \in peers :
                      /\ Len(p.connections.known_peers) = Len(text[i].a)
                      /\ \A k \in DOMAIN text[i].a :
                            Some(p.connections.known_peers[k]) = ParseSocketAddr(text[i].a[k])
                /\ peers = {} =>
                      /\ p.connections.known_peers = <<>>
                      /\ pc[t] = "resolved" => Final(t).connections.known_peers = <<>>
                /\ \A i \in addr :
                      /\ IsSome(p.connections.server_addr)
                      /\ p.connections.server_addr = ParseSocketAddr(text[i].s)

\* "[connections]" alone was loaded.
C9_Witness ==
    /\ pc[1] = "returned"
    /\ contents[1] = <<Tbl("connections")>>
    /\ result[1].kind = "Ok"
    /\ Partial(1).connections = PartialDefault.connections
    /\ Len(Partial(1).connections.known_peers) = 0

(***************************************************************************)
(* C10                                                                     *)
(***************************************************************************)
\* The text a load is about: what the thread itself put into its
\* FILE_CONTENTS cell (from_file in the test build), else the text it passed
\* or read.
InputOf(t) ==
    IF call[t] = "from_file" /\ build = "test" THEN own[t] ELSE contents[t]

\* What the load of thread t returns when it runs with no other thread.
Alone(t) ==
    IF io[t] = "err" THEN [kind |-> "IOError", val |-> None, e |-> result[t].e]
    ELSE LET r == TomlFromStr(InputOf(t))
         IN  IF r.ok THEN [kind |-> "Ok", val |-> r.val, e |-> ""]
             ELSE [kind |-> "ParseError", val |-> None, e |-> r.e]

\* C10: concurrent loads do not interfere.  However the steps of the threads
\* interleave, a load returns what it returns when run alone on its own
\* input, its resolution is that of its own result, and two loads of the
\* same text return equal results.
C10_NoInterference ==
    /\ \A t \in Threads :
          /\ Returned(t) => result[t] = Alone(t)
          /\ pc[t] = "resolved" => resolved[t] = Some(FromPartial(Unwrap(Alone(t).val)))
    /\ \A t, u \in Threads :
          (Returned(t) /\ Returned(u) /\ io[t] # "err" /\ io[u] # "err"
             /\ InputOf(t) = InputOf(u)) => result[t] = result[u]

\* Two threads have loaded different files at the same time, each with
\* from_file, and hold different results.
C10_Witness ==
    \E t, u \in Threads :
        /\ t # u
        /\ build = "test"
        /\ call[t] = "from_file" /\ call[u] = "from_file"
        /\ Returned(t) /\ Returned(u)
        /\ own[t] # own[u]
        /\ result[t].kind = "Ok" /\ result[u].kind = "ParseError"

====
